---- MODULE Spec2Model ----
(***************************************************************************)
(* ONNX scalar type analysis (torch/csrc/jit/passes/onnx/                   *)
(* scalar_type_analysis.cpp): the pass that makes the inputs of the         *)
(* arithmetic and comparison operators of an ONNX graph agree on one       *)
(* element type.  The graph is a set of single-output nodes held in        *)
(* ordered blocks; a value is named by the node that produces it.          *)
(***************************************************************************)
EXTENDS Integers, Sequences, FiniteSets, TLC

\* ------------------------------------------------------------------ bounds
\* Number of times the pass is run over the same graph.
MaxRuns == 2
\* Number of inputs of the operator under analysis in the top-level block.
MaxArity == 2

\* ------------------------------------------------------------- vocabulary
nullopt == "nullopt"
End == 0

Constant == "onnx::Constant"
Cast == "onnx::Cast"
Gather == "onnx::Gather"
Shape == "onnx::Shape"
Param == "prim::Param"
If == "prim::If"
Relu == "onnx::Relu"

scalarTypeToONNXTypeMap ==
  [t \in {"Float", "Byte", "Char", "Short", "Int", "Long", "Bool", "Half", "Double"} |->
     CASE t = "Float" -> 1
       [] t = "Byte" -> 2
       [] t = "Char" -> 3
       [] t = "Short" -> 5
       [] t = "Int" -> 6
       [] t = "Long" -> 7
       [] t = "Bool" -> 9
       [] t = "Half" -> 10
       [] t = "Double" -> 11]

ScalarTypeToONNXType(st) ==
  IF st \in DOMAIN scalarTypeToONNXTypeMap THEN scalarTypeToONNXTypeMap[st] ELSE -1

standardOps ==
  {"onnx::Add", "onnx::Sub", "onnx::Mul", "onnx::Div", "onnx::Gemm", "onnx::Pow", "onnx::Mod"}

IsStandardOp(nkind) == nkind \in standardOps

comparisonOps ==
  {"onnx::Greater", "onnx::Less", "onnx::Equal", "onnx::GreaterOrEqual", "onnx::LessOrEqual"}

IsComparisonOp(nkind) == nkind \in comparisonOps

IsImplicitCastSupportedAll(nodeKind) == nodeKind # Param

IsImplicitCastSupported(nodeKind) ==
  nodeKind \in standardOps \/ nodeKind \in comparisonOps

\* c10::promoteTypes on the element types the graphs below carry.
IntRank == [t \in {"Byte", "Char", "Short", "Int", "Long"} |->
              CASE t = "Byte" -> 1 [] t = "Char" -> 1 [] t = "Short" -> 2
                [] t = "Int" -> 3 [] t = "Long" -> 4]

FloatRank == [t \in {"Half", "BFloat16", "Float", "Double"} |->
                CASE t = "Half" -> 1 [] t = "BFloat16" -> 1
                  [] t = "Float" -> 2 [] t = "Double" -> 3]

promoteTypes(a, b) ==
  IF a = b THEN a
  ELSE IF a = "Bool" THEN b
  ELSE IF b = "Bool" THEN a
  ELSE IF a \in DOMAIN IntRank /\ b \in DOMAIN IntRank
       THEN IF IntRank[a] = IntRank[b] THEN "Short"
            ELSE IF IntRank[a] > IntRank[b] THEN a ELSE b
  ELSE IF a \in DOMAIN IntRank THEN b
  ELSE IF b \in DOMAIN IntRank THEN a
  ELSE IF FloatRank[a] = FloatRank[b] THEN "Float"
       ELSE IF FloatRank[a] > FloatRank[b] THEN a ELSE b

RECURSIVE PromoteFrom(_, _, _)
PromoteFrom(st, types, i) ==
  IF i > Len(types) THEN st
  ELSE PromoteFrom(promoteTypes(st, types[i]), types, i + 1)

PromoteScalarTypes(types) ==
  IF types = <<>> THEN nullopt ELSE PromoteFrom(types[1], types, 2)

\* ------------------------------------------------------------------ graph
VARIABLES nodes, blocks, rets, nextId, stack, run, pre, preBlocks,
          inferred, visited, dceCalls, dceUnvisited, last, totals

vars == <<nodes, blocks, rets, nextId, stack, run, pre, preBlocks,
          inferred, visited, dceCalls, dceUnvisited, last, totals>>

Range(s) == {s[i] : i \in 1..Len(s)}

IndexOf(s, x) == CHOOSE i \in 1..Len(s) : s[i] = x

MkNode(k, ins, ty, val, blks) ==
  [kind |-> k, inputs |-> ins, ty |-> ty, value |-> val, to |-> 0,
   blocks |-> blks, fresh |-> FALSE]

owningBlock(G, n) == CHOOSE b \in DOMAIN G.blocks : n \in Range(G.blocks[b])

create(G, rec) ==
  [G EXCEPT !.nodes = (G.nextId :> rec) @@ G.nodes, !.nextId = @ + 1]

insertAfter(G, new, n) ==
  LET b == owningBlock(G, n)
      s == G.blocks[b]
      p == IndexOf(s, n)
  IN [G EXCEPT !.blocks[b] = SubSeq(s, 1, p) \o <<new>> \o SubSeq(s, p + 1, Len(s))]

insertBefore(G, new, n) ==
  LET b == owningBlock(G, n)
      s == G.blocks[b]
      p == IndexOf(s, n)
  IN [G EXCEPT !.blocks[b] = SubSeq(s, 1, p - 1) \o <<new>> \o SubSeq(s, p, Len(s))]

replaceInputWith(G, n, from, to) ==
  [G EXCEPT !.nodes[n].inputs =
     [j \in 1..Len(@) |-> IF @[j] = from THEN to ELSE @[j]]]

\* -------------------------------------------------------------- inference
\* The for_each of InferExpectedScalarType: one step per input, filling the
\* two buckets in input order.
RECURSIVE CollectTypes(_, _, _, _)
CollectTypes(G, n, i, acc) ==
  IF i > Len(G.nodes[n].inputs) THEN acc
  ELSE LET input == G.nodes[G.nodes[n].inputs[i]]
           nkind == input.kind
       IN IF nkind = Gather /\ G.nodes[input.inputs[1]].kind = Shape
          THEN CollectTypes(G, n, i + 1,
                 [acc EXCEPT !.typesFromScalars = Append(@, "Long")])
          ELSE IF nkind = Constant
          THEN CollectTypes(G, n, i + 1,
                 [acc EXCEPT !.typesFromScalars = Append(@, input.value)])
          ELSE IF input.ty # nullopt
          THEN CollectTypes(G, n, i + 1,
                 [acc EXCEPT !.typesFromTensors = Append(@, input.ty)])
          ELSE CollectTypes(G, n, i + 1, acc)

InferTensorFirst(G, n) ==
  LET acc == CollectTypes(G, n, 1, [typesFromTensors |-> <<>>, typesFromScalars |-> <<>>])
      output_st == G.nodes[n].ty
  IN IF IsComparisonOp(G.nodes[n].kind)
     THEN PromoteScalarTypes(acc.typesFromScalars \o acc.typesFromTensors)
     ELSE IF Len(acc.typesFromScalars) = Len(G.nodes[n].inputs)
          THEN PromoteScalarTypes(acc.typesFromScalars)
          ELSE IF acc.typesFromTensors # <<>>
          THEN acc.typesFromTensors[1]
          ELSE IF output_st # nullopt
          THEN output_st
          ELSE PromoteScalarTypes(acc.typesFromScalars)

InferPromoteAll(G, n) ==
  LET acc == CollectTypes(G, n, 1, [typesFromTensors |-> <<>>, typesFromScalars |-> <<>>])
      output_st == G.nodes[n].ty
  IN IF output_st # nullopt /\ ~IsComparisonOp(G.nodes[n].kind)
        /\ Len(acc.typesFromScalars) # Len(G.nodes[n].inputs)
     THEN output_st
     ELSE PromoteScalarTypes(acc.typesFromScalars \o acc.typesFromTensors)

InferExpectedScalarType(G, n) ==
  LET acc == CollectTypes(G, n, 1, [typesFromTensors |-> <<>>, typesFromScalars |-> <<>>])
      output_st == G.nodes[n].ty
  IN IF IsComparisonOp(G.nodes[n].kind)
     THEN PromoteScalarTypes(acc.typesFromScalars \o acc.typesFromTensors)
     ELSE IF Len(acc.typesFromScalars) = Len(G.nodes[n].inputs)
          THEN PromoteScalarTypes(acc.typesFromScalars)
          ELSE IF output_st # nullopt
          THEN output_st
          ELSE IF acc.typesFromTensors # <<>>
          THEN acc.typesFromTensors[1]
          ELSE PromoteScalarTypes(acc.typesFromScalars)

\* -------------------------------------------------------------- rewriters
\* at::Tensor::to(scalar_type): the literal keeps its data and takes the
\* requested element type.
TensorTo(val, scalar_type) == scalar_type

\* TensorType::create(tensor): the type of a literal carries the literal's
\* element type.
TensorTypeCreate(val) == val

KeepTensorType(typePtr, scalar_type) == typePtr

CreateProfiledTensorTypeWithScalarType(typePtr, scalar_type) == scalar_type

\* The branch for a literal input: a fresh Constant holding the converted
\* literal takes the place of the input.
SpliceConstant(G, n, input, scalar_type) ==
  LET new_val == TensorTo(G.nodes[input].value, scalar_type)
      const_node == G.nextId
      G1 == create(G, [kind |-> Constant, inputs |-> <<>>, ty |-> nullopt,
                       value |-> new_val, to |-> 0, blocks |-> <<>>, fresh |-> TRUE])
      G2 == insertBefore(G1, const_node, n)
      G3 == [G2 EXCEPT !.nodes[const_node].ty = TensorTypeCreate(new_val)]
  IN replaceInputWith(G3, n, input, const_node)

SpliceCastAfter(G, n, input, scalar_type, onnx_type) ==
  LET cast_node == G.nextId
      G1 == create(G, [kind |-> Cast, inputs |-> <<input>>, ty |-> nullopt,
                       value |-> nullopt, to |-> onnx_type, blocks |-> <<>>,
                       fresh |-> TRUE])
      G2 == insertAfter(G1, cast_node, n)
      G3 == [G2 EXCEPT !.nodes[cast_node].ty =
               CreateProfiledTensorTypeWithScalarType(G.nodes[input].ty, scalar_type)]
  IN replaceInputWith(G3, n, input, cast_node)

\* The branch for any other input of a differing known type: a Cast of the
\* input takes its place.
SpliceCast(G, n, input, scalar_type, onnx_type) ==
  LET cast_node == G.nextId
      G1 == create(G, [kind |-> Cast, inputs |-> <<input>>, ty |-> nullopt,
                       value |-> nullopt, to |-> onnx_type, blocks |-> <<>>,
                       fresh |-> TRUE])
      G2 == insertBefore(G1, cast_node, n)
      G3 == [G2 EXCEPT !.nodes[cast_node].ty =
               CreateProfiledTensorTypeWithScalarType(G.nodes[input].ty, scalar_type)]
  IN replaceInputWith(G3, n, input, cast_node)

\* The range-for of UpdateScalarTypeForInputs from input i on; an input is
\* read when its turn comes, after the rewiring done for the earlier ones.
RECURSIVE InputsFrom(_, _, _, _, _)
InputsFrom(G, n, scalar_type, onnx_type, i) ==
  IF i > Len(G.nodes[n].inputs) THEN G
  ELSE LET input == G.nodes[n].inputs[i]
           input_scalar_type == G.nodes[input].ty
       IN IF G.nodes[input].kind = Constant
             \/ (input_scalar_type # nullopt /\ input_scalar_type # scalar_type)
          THEN IF G.nodes[input].kind = Constant
               THEN InputsFrom(SpliceConstant(G, n, input, scalar_type),
                               n, scalar_type, onnx_type, i + 1)
               ELSE InputsFrom(SpliceCast(G, n, input, scalar_type, onnx_type),
                               n, scalar_type, onnx_type, i + 1)
          ELSE InputsFrom(G, n, scalar_type, onnx_type, i + 1)

UpdateInputsSkipFirst(G, n, scalar_type) ==
  LET onnx_type == ScalarTypeToONNXType(scalar_type)
  IN IF onnx_type < 0 THEN G
     ELSE InputsFrom(G, n, scalar_type, onnx_type, 2)

UpdateInputsUnguarded(G, n, scalar_type) ==
  InputsFrom(G, n, scalar_type, ScalarTypeToONNXType(scalar_type), 1)

UpdateScalarTypeForInputs(G, n, scalar_type) ==
  LET onnx_type == ScalarTypeToONNXType(scalar_type)
  IN IF onnx_type < 0 THEN G
     ELSE InputsFrom(G, n, scalar_type, onnx_type, 1)

UpdateOutputIfEncodable(G, n, scalar_type) ==
  IF ScalarTypeToONNXType(scalar_type) < 0 THEN G
  ELSE [G EXCEPT !.nodes[n].ty = scalar_type]

UpdateScalarTypeForOutput(G, n, scalar_type) ==
  [G EXCEPT !.nodes[n].ty =
     CreateProfiledTensorTypeWithScalarType(G.nodes[n].ty, scalar_type)]

\* The body of the loop of ImplicitCastForONNX for node n, after the
\* recursion into its blocks.
LoopBodyNoComparisonGuard(G, n) ==
  IF IsImplicitCastSupported(G.nodes[n].kind)
  THEN LET expected_scalar_type == InferExpectedScalarType(G, n)
       IN IF expected_scalar_type # nullopt
          THEN UpdateScalarTypeForOutput(
                 UpdateScalarTypeForInputs(G, n, expected_scalar_type),
                 n, expected_scalar_type)
          ELSE G
  ELSE G

LoopBody(G, n) ==
  IF IsImplicitCastSupported(G.nodes[n].kind)
  THEN LET expected_scalar_type == InferExpectedScalarType(G, n)
       IN IF expected_scalar_type # nullopt
          THEN LET G1 == UpdateScalarTypeForInputs(G, n, expected_scalar_type)
               IN IF ~IsComparisonOp(G.nodes[n].kind)
                  THEN UpdateScalarTypeForOutput(G1, n, expected_scalar_type)
                  ELSE G1
          ELSE G
  ELSE G

\* ------------------------------------------------------------------- DCE
\* EliminateDeadCode(block, recurse = true, ALLOW_DELETING_NODES_WITH_SIDE_
\* EFFECTS): the values the block returns are live, so is every input of a
\* live node and every value returned by a block of a live node; the nodes
\* of the block and of the blocks nested in it that are not live are removed.
RECURSIVE ScopeBlocks(_, _)
ScopeBlocks(G, bs) ==
  LET inner == UNION {Range(G.nodes[n].blocks) : n \in UNION {Range(G.blocks[b]) : b \in bs}}
  IN IF inner \subseteq bs THEN bs ELSE ScopeBlocks(G, bs \cup inner)

RECURSIVE LiveValues(_, _, _)
LiveValues(G, R, L) ==
  LET more == UNION {Range(G.nodes[m].inputs) : m \in L}
              \cup UNION {Range(R[c]) : c \in UNION {Range(G.nodes[m].blocks) : m \in L}}
  IN IF more \subseteq L THEN L ELSE LiveValues(G, R, L \cup more)

EliminateDeadCode(G, R, block) ==
  LET scope == ScopeBlocks(G, {block})
      live == LiveValues(G, R, Range(R[block]))
      dead == UNION {Range(G.blocks[c]) : c \in scope} \ live
      destroyed == UNION {Range(G.nodes[x].blocks) : x \in dead}
  IN [G EXCEPT !.blocks = [c \in DOMAIN @ \ destroyed |->
                             IF c \in scope
                             THEN SelectSeq(@[c], LAMBDA x : x \in live)
                             ELSE @[c]],
               !.nodes = [x \in DOMAIN @ \ dead |-> @[x]]]

\* ---------------------------------------------------------- initial graphs
\* Values 1..4 are graph inputs; the top-level block 0 holds a literal, the
\* Gather(Shape(x)) idiom, the operator A under analysis, an If node with
\* two blocks and a Relu; block 1 holds operator B, block 2 a Mul.
PoolA == {1, 2, 3, 4, 5, 7}

KindsA == {<<"onnx::Add", nullopt>>, <<"onnx::Add", "Double">>, <<"onnx::Greater", "Bool">>}

KindsB == {<<"onnx::Sub", nullopt>>, <<"onnx::Less", "Bool">>, <<"onnx::Max", nullopt>>}

InitNodes(ka, ia, kb, ib) ==
  (1 :> MkNode(Param, <<>>, "Float", nullopt, <<>>))
  @@ (2 :> MkNode(Param, <<>>, "Int", nullopt, <<>>))
  @@ (3 :> MkNode(Param, <<>>, "BFloat16", nullopt, <<>>))
  @@ (4 :> MkNode(Param, <<>>, nullopt, nullopt, <<>>))
  @@ (5 :> MkNode(Constant, <<>>, "Int", "Int", <<>>))
  @@ (6 :> MkNode(Shape, <<1>>, "Long", nullopt, <<>>))
  @@ (7 :> MkNode(Gather, <<6, 5>>, "Long", nullopt, <<>>))
  @@ (8 :> MkNode(ka[1], ia, ka[2], nullopt, <<>>))
  @@ (9 :> MkNode(If, <<4>>, nullopt, nullopt, <<1, 2>>))
  @@ (10 :> MkNode(Relu, <<8>>, nullopt, nullopt, <<>>))
  @@ (11 :> MkNode(kb[1], ib, kb[2], nullopt, <<>>))
  @@ (12 :> MkNode("onnx::Mul", <<8, 5>>, nullopt, nullopt, <<>>))

NoNode == MkNode(Param, <<>>, nullopt, nullopt, <<>>)

NoStep == [op |-> "init", node |-> End, st |-> nullopt, before |-> NoNode,
           firstNew |-> End, casts |-> 0, consts |-> 0, retyped |-> 0, rewired |-> 0]

NoTotals == [casts |-> 0, consts |-> 0, retyped |-> 0, rewired |-> 0, edges |-> 0]

Init ==
  /\ \E ka \in KindsA, kb \in KindsB :
       \E ia \in [1..MaxArity -> PoolA], y \in {5, 2} :
         nodes = InitNodes(ka, ia, kb, <<8, y>>)
  /\ blocks = (0 :> <<5, 6, 7, 8, 9, 10>>) @@ (1 :> <<11>>) @@ (2 :> <<12>>)
  /\ \E r \in {<<9, 10>>, <<10>>} : rets = (0 :> r) @@ (1 :> <<11>>) @@ (2 :> <<12>>)
  /\ nextId = Cardinality(DOMAIN nodes) + 1
  /\ stack = <<>>
  /\ run = 0
  /\ pre = nodes
  /\ preBlocks = blocks
  /\ inferred = <<>>
  /\ visited = {}
  /\ dceCalls = [b \in DOMAIN blocks |-> 0]
  /\ dceUnvisited = {}
  /\ last = NoStep
  /\ totals = NoTotals

\* ----------------------------------------------------------------- driver
Top == stack[Len(stack)]

\* block->nodes().begin()
Begin(bl, b) == IF bl[b] = <<>> THEN End ELSE bl[b][1]

\* ++it
Succ(bl, b, n) ==
  LET p == IndexOf(bl[b], n)
  IN IF p = Len(bl[b]) THEN End ELSE bl[b][p + 1]

Frame(bl, b) == [blk |-> b, it |-> Begin(bl, b), sub |-> 0]

\* ScalarTypeAnalysisForONNX(graph): the pass starts on the top-level block.
ScalarTypeAnalysisForONNX ==
  /\ stack = <<>>
  /\ run < MaxRuns
  /\ run' = run + 1
  /\ stack' = <<Frame(blocks, 0)>>
  /\ pre' = nodes
  /\ preBlocks' = blocks
  /\ inferred' = <<>>
  /\ visited' = {}
  /\ dceCalls' = [b \in DOMAIN blocks |-> 0]
  /\ dceUnvisited' = {}
  /\ last' = [NoStep EXCEPT !.op = "start"]
  /\ totals' = NoTotals
  /\ UNCHANGED <<nodes, blocks, rets, nextId>>

\* for (auto sub : it->blocks()) ImplicitCastForONNX(sub): the call for the
\* next block of the node under the cursor.
RecurseIntoBlock ==
  /\ stack # <<>>
  /\ Top.it # End
  /\ Top.sub < Len(nodes[Top.it].blocks)
  /\ stack' = [stack EXCEPT ![Len(stack)].sub = @ + 1]
                \o <<Frame(blocks, nodes[Top.it].blocks[Top.sub + 1])>>
  /\ last' = [NoStep EXCEPT !.op = "recurse", !.node = Top.it]
  /\ UNCHANGED <<nodes, blocks, rets, nextId, run, pre, preBlocks, inferred,
                 visited, dceCalls, dceUnvisited, totals>>

\* The rest of one iteration of the loop: classify, infer, rewrite, ++it.
VisitNode ==
  /\ stack # <<>>
  /\ Top.it # End
  /\ Top.sub = Len(nodes[Top.it].blocks)
  /\ LET n == Top.it
         G == [nodes |-> nodes, blocks |-> blocks, nextId |-> nextId]
         st == IF IsImplicitCastSupported(nodes[n].kind)
               THEN InferExpectedScalarType(G, n) ELSE nullopt
         G2 == LoopBody(G, n)
         new == nextId..(G2.nextId - 1)
         changed == {j \in 1..Len(nodes[n].inputs) :
                       G2.nodes[n].inputs[j] # nodes[n].inputs[j]}
         sameLiteral(j) ==
           LET o == nodes[nodes[n].inputs[j]]
               w == G2.nodes[G2.nodes[n].inputs[j]]
           IN o.kind = Constant /\ w.kind = Constant /\ o.value = w.value /\ o.ty = w.ty
         step == [op |-> "visit", node |-> n, st |-> st, before |-> nodes[n],
                  firstNew |-> nextId,
                  casts |-> Cardinality({x \in new : G2.nodes[x].kind = Cast}),
                  consts |-> Cardinality({x \in new : G2.nodes[x].kind = Constant}),
                  retyped |-> Cardinality({x \in DOMAIN nodes : G2.nodes[x].ty # nodes[x].ty}),
                  rewired |-> Cardinality(changed)]
     IN /\ nodes' = G2.nodes
        /\ blocks' = G2.blocks
        /\ nextId' = G2.nextId
        /\ stack' = [stack EXCEPT ![Len(stack)] = [blk |-> Top.blk,
                                                    it |-> Succ(G2.blocks, Top.blk, n),
                                                    sub |-> 0]]
        /\ inferred' = IF st # nullopt THEN (n :> st) @@ inferred ELSE inferred
        /\ visited' = visited \cup {n}
        /\ last' = step
        /\ totals' = [casts |-> totals.casts + step.casts,
                      consts |-> totals.consts + step.consts,
                      retyped |-> totals.retyped + step.retyped,
                      rewired |-> totals.rewired + step.rewired,
                      edges |-> totals.edges
                                + Cardinality({j \in changed : ~sameLiteral(j)})]
  /\ UNCHANGED <<rets, run, pre, preBlocks, dceCalls, dceUnvisited>>

EndOfBlockTopOnly ==
  /\ stack # <<>>
  /\ Top.it = End
  /\ LET b == Top.blk
         G == [nodes |-> nodes, blocks |-> blocks, nextId |-> nextId]
         G2 == IF Len(stack) = 1 THEN EliminateDeadCode(G, rets, b) ELSE G
     IN /\ nodes' = G2.nodes
        /\ blocks' = G2.blocks
        /\ dceCalls' = IF Len(stack) = 1 THEN [dceCalls EXCEPT ![b] = @ + 1] ELSE dceCalls
        /\ dceUnvisited' = dceUnvisited
                           \cup ((Range(blocks[b]) \cap DOMAIN pre) \ visited)
        /\ last' = [NoStep EXCEPT !.op = "dce", !.node = b]
  /\ stack' = SubSeq(stack, 1, Len(stack) - 1)
  /\ UNCHANGED <<rets, nextId, run, pre, preBlocks, inferred, visited, totals>>

\* The end of the loop: EliminateDeadCode on the block, and the return.
EndOfBlock ==
  /\ stack # <<>>
  /\ Top.it = End
  /\ LET b == Top.blk
         G2 == EliminateDeadCode([nodes |-> nodes, blocks |-> blocks, nextId |-> nextId],
                                 rets, b)
     IN /\ nodes' = G2.nodes
        /\ blocks' = G2.blocks
        /\ dceCalls' = [dceCalls EXCEPT ![b] = @ + 1]
        /\ dceUnvisited' = dceUnvisited
                           \cup ((Range(blocks[b]) \cap DOMAIN pre) \ visited)
        /\ last' = [NoStep EXCEPT !.op = "dce", !.node = b]
  /\ stack' = SubSeq(stack, 1, Len(stack) - 1)
  /\ UNCHANGED <<rets, nextId, run, pre, preBlocks, inferred, visited, totals>>

Next ==
  \/ ScalarTypeAnalysisForONNX
  \/ RecurseIntoBlock
  \/ VisitNode
  \/ EndOfBlock

Spec == Init /\ [][Next]_vars

PassDone == run >= 1 /\ stack = <<>>

\* ================================================================ claims
Present(n) == n \in DOMAIN nodes

Processed == {n \in DOMAIN inferred : Present(n)}

FreshCastTo(v, st) ==
  nodes[v].kind = Cast /\ nodes[v].fresh /\ nodes[v].to = ScalarTypeToONNXType(st)

InputsAgree(n) ==
  /\ \A j \in 1..Len(nodes[n].inputs) :
       LET v == nodes[n].inputs[j]
       IN nodes[v].ty # nullopt => (nodes[v].ty = inferred[n] \/ FreshCastTo(v, inferred[n]))
  /\ \A i, j \in 1..Len(nodes[n].inputs) :
       LET v == nodes[n].inputs[i]
           w == nodes[n].inputs[j]
       IN nodes[v].ty # nullopt /\ nodes[w].ty # nullopt => nodes[v].ty = nodes[w].ty

\* C1 as stated: after the pass every whitelisted node with an inferred type
\* T has each input of known element type either of type T or produced by
\* an inserted Cast to T, so no two of its inputs have differing known types.
C1_InputsAgreeAnyType ==
  PassDone => \A n \in Processed : InputsAgree(n)

\* C1, amended: the same for every inferred type T that has an ONNX code;
\* a type without one leaves the inputs as they were.
C1_InputsAgree ==
  PassDone => \A n \in Processed :
                ScalarTypeToONNXType(inferred[n]) >= 0 => InputsAgree(n)

C1_Witness ==
  /\ PassDone
  /\ run = 1
  /\ \E n \in Processed :
       /\ ScalarTypeToONNXType(inferred[n]) >= 0
       /\ \E i, j \in 1..Len(nodes[n].inputs) :
            /\ FreshCastTo(nodes[n].inputs[i], inferred[n])
            /\ nodes[nodes[n].inputs[j]].kind = Constant
            /\ nodes[nodes[n].inputs[j]].fresh

\* C2: after the pass the output of every STANDARD node with an inferred
\* type T is annotated T, also when T has no ONNX code.
C2_OutputType ==
  PassDone => \A n \in Processed :
                IsStandardOp(nodes[n].kind) => nodes[n].ty = inferred[n]

C2_Witness ==
  /\ PassDone
  /\ run = 1
  /\ \E n \in Processed :
       /\ IsStandardOp(nodes[n].kind)
       /\ inferred[n] = "BFloat16"
       /\ ScalarTypeToONNXType(inferred[n]) = -1
       /\ pre[n].ty = nullopt
       /\ nodes[n].inputs = pre[n].inputs

\* C3 as stated: a second run of the pass inserts no Cast and no Constant,
\* rewires no input and changes no annotation.
C3_SecondRunNoRewrite ==
  run >= 2 => /\ totals.casts = 0
              /\ totals.consts = 0
              /\ totals.rewired = 0
              /\ totals.retyped = 0

\* C3, amended: a second run inserts no Cast and changes no annotation; the
\* only edges it rewires lead from a literal to a fresh literal of the same
\* element type.
C3_SecondRunOnlyLiterals ==
  run >= 2 => /\ totals.casts = 0
              /\ totals.retyped = 0
              /\ totals.edges = 0
              /\ totals.rewired > 0 => totals.consts > 0

C3_Witness ==
  /\ run = 2
  /\ PassDone
  /\ totals.consts > 0
  /\ \E n \in Processed : \E j \in 1..Len(nodes[n].inputs) :
       FreshCastTo(nodes[n].inputs[j], inferred[n])

\* The rule table of the inference, read off the node as it was before its
\* visit.
ScalarLike(v) ==
  \/ nodes[v].kind = Constant
  \/ nodes[v].kind = Gather /\ nodes[nodes[v].inputs[1]].kind = Shape

ScalarContribution(v) == IF nodes[v].kind = Constant THEN nodes[v].value ELSE "Long"

ScalarBucket(ins) ==
  LET idx == SelectSeq([j \in 1..Len(ins) |-> j], LAMBDA j : ScalarLike(ins[j]))
  IN [k \in 1..Len(idx) |-> ScalarContribution(ins[idx[k]])]

TensorIdx(ins) ==
  SelectSeq([j \in 1..Len(ins) |-> j],
            LAMBDA j : ~ScalarLike(ins[j]) /\ nodes[ins[j]].ty # nullopt)

TensorBucket(ins) ==
  LET idx == TensorIdx(ins) IN [k \in 1..Len(idx) |-> nodes[ins[idx[k]]].ty]

RECURSIVE FoldPromote(_)
FoldPromote(types) ==
  IF Len(types) = 1 THEN types[1]
  ELSE promoteTypes(FoldPromote(SubSeq(types, 1, Len(types) - 1)), types[Len(types)])

Promoted(types) == IF types = <<>> THEN nullopt ELSE FoldPromote(types)

RuleTable(node) ==
  LET scalars == ScalarBucket(node.inputs)
      tensors == TensorBucket(node.inputs)
  IN CASE node.kind \in comparisonOps -> Promoted(scalars \o tensors)
       [] node.kind \in standardOps /\ (\A j \in 1..Len(node.inputs) : ScalarLike(node.inputs[j]))
            -> Promoted(scalars)
       [] OTHER -> IF node.ty # nullopt THEN node.ty
                   ELSE IF tensors # <<>> THEN tensors[1]
                   ELSE Promoted(scalars)

\* C4: the type inferred for a visited whitelisted node is the one the rule
\* table gives, in the table's order of precedence.
C4_InferRule ==
  (last.op = "visit" /\ last.before.kind \in standardOps \cup comparisonOps)
    => last.st = RuleTable(last.before)

C4_Witness ==
  /\ last.op = "visit"
  /\ last.before.kind \in standardOps
  /\ last.before.ty # nullopt
  /\ TensorBucket(last.before.inputs) # <<>>
  /\ ScalarBucket(last.before.inputs) # <<>>
  /\ TensorBucket(last.before.inputs)[1] # last.before.ty
  /\ last.st = last.before.ty

Untouched(n) ==
  /\ nodes[n] = pre[n]
  /\ \E b \in DOMAIN blocks : n \in Range(blocks[b]) /\ n \in Range(preBlocks[b])

InBlocks(n) == \E b \in DOMAIN preBlocks : n \in Range(preBlocks[b])

Outside == {n \in DOMAIN pre : InBlocks(n) /\ pre[n].kind \notin standardOps \cup comparisonOps}

\* C5 as stated: every node outside the whitelist is still present after
\* the pass, with its kind, inputs, attributes and output annotation.
C5_OthersKept ==
  PassDone => \A n \in Outside : Present(n) /\ Untouched(n)

\* C5, amended: every node outside the whitelist is either unchanged after
\* the pass or was removed by dead-code elimination, no surviving node or
\* block return using its output.
C5_OthersKeptOrDead ==
  PassDone => \A n \in Outside :
                IF Present(n) THEN Untouched(n)
                ELSE /\ \A m \in DOMAIN nodes : n \notin Range(nodes[m].inputs)
                     /\ \A b \in DOMAIN blocks : n \notin Range(rets[b])

C5_Witness ==
  /\ PassDone
  /\ run = 1
  /\ totals.casts > 0
  /\ \E n \in Outside :
       /\ Present(n)
       /\ nodes[n].inputs # <<>>
       /\ \E m \in Processed : m \in Range(nodes[n].inputs) /\ nodes[m].ty # pre[m].ty
  /\ \E n \in Outside : ~Present(n) /\ pre[n].kind = Constant
  /\ \E n \in Outside : ~Present(n) /\ pre[n].kind = If

\* C6: the output annotation of a COMPARISON node is the same after the
\* pass as before it.
C6_ComparisonOutput ==
  PassDone => \A n \in DOMAIN pre :
                (Present(n) /\ pre[n].kind \in comparisonOps) => nodes[n].ty = pre[n].ty

C6_Witness ==
  /\ PassDone
  /\ run = 1
  /\ \E n \in Processed :
       /\ nodes[n].kind \in comparisonOps
       /\ inferred[n] # nodes[n].ty
       /\ nodes[n].inputs # pre[n].inputs

\* C7: a visit whose inferred type has no ONNX code creates no node, rewires
\* no input of the node and changes no annotation of an input, and the loop
\* moves on to the next node of the block; at the end every surviving node
\* has been visited.
C7_UnsupportedTypeSkipsInputs ==
  /\ (last.op = "visit" /\ last.st # nullopt /\ ScalarTypeToONNXType(last.st) < 0)
       => /\ nextId = last.firstNew
          /\ last.casts = 0 /\ last.consts = 0 /\ last.rewired = 0
          /\ nodes[last.node].inputs = last.before.inputs
          /\ last.retyped = (IF nodes[last.node].ty # last.before.ty THEN 1 ELSE 0)
          /\ stack # <<>>
          /\ Top.it = Succ(blocks, Top.blk, last.node)
  /\ PassDone => \A b \in DOMAIN blocks : (Range(blocks[b]) \cap DOMAIN pre) \subseteq visited

C7_Witness ==
  /\ last.op = "visit"
  /\ last.st = "BFloat16"
  /\ Top.it # End
  /\ \E i \in 1..Len(last.before.inputs) :
       /\ nodes[last.before.inputs[i]].kind = Constant
       /\ nodes[last.before.inputs[i]].value # "BFloat16"

\* C8: in a run of the pass EliminateDeadCode is called at most once on a
\* block, only when every node the block held has been visited, and exactly
\* once on every block by the end of the run.
C8_DceOncePerBlock ==
  /\ \A b \in DOMAIN dceCalls : dceCalls[b] <= 1
  /\ dceUnvisited = {}
  /\ \A b \in DOMAIN blocks :
       dceCalls[b] = 1 => (Range(blocks[b]) \cap DOMAIN pre) \subseteq visited
  /\ PassDone => \A b \in DOMAIN dceCalls : dceCalls[b] = 1

C8_Witness ==
  /\ stack # <<>>
  /\ dceCalls[1] = 1 /\ dceCalls[2] = 1 /\ dceCalls[0] = 0
  /\ {11, 12} \subseteq visited
  /\ totals.rewired > 0

Owner(b) == CHOOSE o \in DOMAIN nodes : b \in Range(nodes[o].blocks)

RECURSIVE Precedes(_, _, _)
Precedes(v, b, p) ==
  \/ nodes[v].kind = Param
  \/ \E q \in 1..(p - 1) : blocks[b][q] = v
  \/ /\ b # 0
     /\ LET c == owningBlock([blocks |-> blocks], Owner(b))
        IN Precedes(v, c, IndexOf(blocks[c], Owner(b)))

TopoOrdered ==
  \A b \in DOMAIN blocks : \A p \in 1..Len(blocks[b]) :
    \A v \in Range(nodes[blocks[b][p]].inputs) : Present(v) /\ Precedes(v, b, p)

OrderKept ==
  \A b \in DOMAIN blocks :
    SelectSeq(blocks[b], LAMBDA x : x \in DOMAIN pre)
      = SelectSeq(preBlocks[b], LAMBDA x : Present(x))

InsertedJustBefore ==
  LET b == owningBlock([blocks |-> blocks], last.node)
      p == IndexOf(blocks[b], last.node)
      k == nextId - last.firstNew
  IN /\ p > k
     /\ \A j \in 0..(k - 1) : blocks[b][p - k + j] = last.firstNew + j

\* C9: the nodes a visit creates sit immediately before the visited node, in
\* the order of their creation; every block stays topologically ordered and
\* the nodes that were there before keep their relative order.
C9_InsertionOrder ==
  /\ TopoOrdered
  /\ OrderKept
  /\ last.op = "visit" => InsertedJustBefore

C9_Witness ==
  /\ last.op = "visit"
  /\ last.casts >= 1
  /\ last.consts >= 1

FirstTensorKept ==
  LET idx == TensorIdx(last.before.inputs)
  IN /\ last.st = nodes[last.before.inputs[idx[1]]].ty
     /\ nodes[last.node].inputs[idx[1]] = last.before.inputs[idx[1]]

\* C10 as stated: a STANDARD node with an input in the tensor bucket gets
\* the type of its first tensor input, which is therefore not cast.
C10_TensorPreferred ==
  (last.op = "visit" /\ last.before.kind \in standardOps
     /\ TensorIdx(last.before.inputs) # <<>>)
    => FirstTensorKept

\* With a known output type T: every tensor-bucket input of another type is
\* replaced by an inserted Cast of it to T when T has an ONNX code, and
\* every other tensor-bucket input stays.
TensorsFollowOutput ==
  LET idx == TensorIdx(last.before.inputs)
      T == last.before.ty
  IN /\ last.st = T
     /\ \A k \in 1..Len(idx) :
          LET old == last.before.inputs[idx[k]]
              now == nodes[last.node].inputs[idx[k]]
          IN IF nodes[old].ty # T /\ ScalarTypeToONNXType(T) >= 0
             THEN /\ now # old
                  /\ FreshCastTo(now, T)
                  /\ nodes[now].inputs = <<old>>
                  /\ nodes[now].ty = T
             ELSE now = old

\* C10, amended: a STANDARD node with an input in the tensor bucket gets the
\* type of its first tensor input, which is not cast, when its output
\* carries no known element type; when the output type is known, that type
\* is chosen, and a tensor input of another type is cast to it if the type
\* has an ONNX code and left as it is otherwise.
C10_TensorOrOutputType ==
  (last.op = "visit" /\ last.before.kind \in standardOps
     /\ TensorIdx(last.before.inputs) # <<>>)
    => IF last.before.ty = nullopt THEN FirstTensorKept ELSE TensorsFollowOutput

C10_Witness ==
  /\ last.op = "visit"
  /\ last.before.kind \in standardOps
  /\ last.before.ty = nullopt
  /\ Len(TensorIdx(last.before.inputs)) >= 2
  /\ last.casts >= 1
  /\ last.st # "Float"

====
